---- MODULE Spec2Model ----
(***************************************************************************)
(* Model of bookwyrm/models/bookwyrm_export_job.py: the export job         *)
(* (BookwyrmExportJob.start_job), the background task (start_export_task), *)
(* the bundle builder (json_export), the archive writer (tar_export) and   *)
(* the relational traversal (get_books_for_user).                          *)
(*                                                                         *)
(* The relational store is a set of rows.  A row is a record               *)
(*   [kind, owner, user, book]                                             *)
(* kind  : which table relates the edition `book` to a user;               *)
(* user  : the row's own user column (ShelfBook.user, ListItem.user,       *)
(*         ReadThrough.user, Review.user, Comment.user, Quotation.user);   *)
(* owner : the user of the container the row sits in: Shelf.user for a     *)
(*         ShelfBook, List.user for a ListItem; for the other kinds the    *)
(*         row has no container and owner = user.                          *)
(* Every user has one shelf and one list, named after their owner.         *)
(*                                                                         *)
(* One worker runs the tasks of the queue, one at a time.  A task is a     *)
(* sequence of steps, one per evaluation of a query against the store, so  *)
(* that other processes may change the store between two of them; the body *)
(* of the loop over the books is one step.                                 *)
(***************************************************************************)
EXTENDS Integers, Sequences, FiniteSets, TLC

\* ---------------------------------------------------------------- bounds
\* Largest number of relation rows in the store.
MaxRecords == 2
\* Largest number of relation rows in the store when exceptions are injected.
MaxFaultRecords == 1
\* Largest number of start_job calls.
MaxStarts == 2

\* ------------------------------------------------------------- universe
Users == {"mouse", "rat"}
\* The user of the export job (job.user).
JobUser == "mouse"
\* Edition rows; an Edition is a Book row with the same id.
Editions == {1, 2}
\* Book rows that are no editions (works).
Works == {3}
BookIds == Editions \cup Works
\* Editions with a cover image (Edition.cover).
WithCover == {1}
ContainerKinds == {"shelf", "list"}
PlainKinds == {"readthrough", "review", "comment", "quotation"}
Kinds == ContainerKinds \cup PlainKinds
\* A ShelfBook's user is its shelf's user; a ListItem's user is whoever added
\* the item, the list's owner or not.
Rows == {r \in [kind : Kinds, owner : Users, user : Users, book : Editions] :
           r.kind # "list" => r.owner = r.user}
\* The AnnualGoal table: (user, year) rows, in primary key order.
AnnualGoals == << [user |-> "mouse", year |-> 2022], [user |-> "rat", year |-> 2022],
                  [user |-> "mouse", year |-> 2023] >>
\* UserFollows and UserBlocks rows: (user_subject, user_object).
UserFollows == { <<"mouse", "rat">> }
UserBlocks == { <<"rat", "mouse">> }
\* The outer join's row for an edition with no related row in a table.
NULL == [kind |-> "null", owner |-> "nobody", user |-> "nobody", book |-> 0]
NoFile == [state |-> "none", entries |-> << >>]
NoData == [user |-> [username |-> "nobody", avatar |-> FALSE], goals |-> << >>,
           books |-> << >>, saved_lists |-> {}, follows |-> {}, blocked_users |-> {}]
\* The exceptions the store and the archive library raise in a run, by place:
\* goals = k: iterating the goals raises after k goals (-1: it does not raise).
NoFaults == [goals |-> -1, readthroughs |-> FALSE, books |-> FALSE, tar |-> FALSE]

VARIABLES
  db,           \* the relation rows of the store
  visible,      \* the editions Edition.viewer_aware_objects(job.user) yields
  avatar,       \* whether job.user has an avatar image
  queue,        \* the task queue: messages of start_export_task.delay
  starts,       \* number of start_job calls so far
  job,          \* the BookwyrmExportJob row: status, complete, export_data
  pc,           \* position of the worker inside start_export_task
  file,         \* job.export_data of the running task (the in-memory ContentFile)
  goals_list,   \* json_export: goals_list
  readthroughs, \* json_export: readthroughs
  books,        \* json_export: the rows of books.values() still to iterate
  final_books,  \* json_export: final_books
  json_data,    \* start_export_task: json_data
  faults,       \* the exceptions the environment raises in a run, by place
  raised,       \* where the exception that reached start_export_task came from
  trace         \* the events of the latest run of start_export_task, in order

vars == << db, visible, avatar, queue, starts, job, pc, file, goals_list,
           readthroughs, books, final_books, json_data, faults, raised,
           trace >>

\* ------------------------------------------------------------- sequences
RECURSIVE SortedSeq(_)
SortedSeq(S) ==
  IF S = {} THEN << >>
  ELSE LET m == CHOOSE x \in S : \A y \in S : x <= y
       IN << m >> \o SortedSeq(S \ {m})

RECURSIVE Repeat(_, _)
Repeat(x, n) == IF n = 0 THEN << >> ELSE << x >> \o Repeat(x, n - 1)

RECURSIVE Flatten(_)
Flatten(ss) == IF ss = << >> THEN << >> ELSE Head(ss) \o Flatten(Tail(ss))

Range(s) == {s[i] : i \in 1..Len(s)}
Count(s, x) == Cardinality({i \in 1..Len(s) : s[i] = x})
Contains(s, x) == \E i \in 1..Len(s) : s[i] = x
Pos(s, x) == IF Contains(s, x) THEN CHOOSE i \in 1..Len(s) : s[i] = x ELSE 0

\* ------------------------------------------------------------- queries
\* The rows of one related table an edition joins to (LEFT OUTER JOIN).
Joined(d, kind, e) ==
  LET rel == {r \in d : r.kind = kind /\ r.book = e}
  IN IF rel = {} THEN {NULL} ELSE rel

\* The rows the joined query yields for edition e before DISTINCT: one per
\* combination of related rows that passes the OR of the six Q filters.
JoinRows(d, user, e) ==
  {t \in Joined(d, "shelf", e) \X Joined(d, "readthrough", e) \X Joined(d, "review", e)
         \X Joined(d, "list", e) \X Joined(d, "comment", e) \X Joined(d, "quotation", e) :
      \/ t[1].owner = user
      \/ t[2].user = user
      \/ t[3].user = user
      \/ t[4].owner = user
      \/ t[5].user = user
      \/ t[6].user = user}

DistinctNoop(s) == s

\* QuerySet.distinct(): every row once, order kept.
RECURSIVE Distinct(_)
Distinct(s) ==
  IF s = << >> THEN << >>
  ELSE LET rest == Distinct(SubSeq(s, 1, Len(s) - 1))
       IN IF Contains(rest, s[Len(s)]) THEN rest ELSE Append(rest, s[Len(s)])

\* all_books.filter(Q(...) | ...): the edition ids of the joined rows.
FilterRelated(d, vis, user) ==
  LET es == SortedSeq(vis)
  IN Flatten([i \in 1..Len(es) |-> Repeat(es[i], Cardinality(JoinRows(d, user, es[i])))])

\* The editions query of get_books_for_user, evaluated on store d.
EditionsQuery(d, vis, user) == Distinct(FilterRelated(d, vis, user))

\* The books query of get_books_for_user, evaluated on store d.
BooksQuery(d, vis, user) ==
  Distinct(SortedSeq({b \in BookIds : Contains(EditionsQuery(d, vis, user), b)}))

\* get_books_for_user(user): (editions, books).
GetBooksForUser(d, vis, user) ==
  [editions |-> EditionsQuery(d, vis, user), books |-> BooksQuery(d, vis, user)]

\* ------------------------------------------------------------ the job row
\* Job.set_status(status): the job takes the status; the status "complete"
\* also sets the job's complete flag.
SetStatus(j, status) ==
  [j EXCEPT !.status = status, !.complete = (j.complete \/ status = "complete")]

\* A Shelf or List row: one per owner.
Container(owner) == [name |-> owner, user |-> owner]

\* The authors of an edition (Edition.authors).
Authors == [e \in Editions |-> {e + 100}]

\* json_export, lines 120-172: everything placed under one book of the bundle,
\* read from store d.
BookEntry(d, user, b) ==
  LET shelf_books == {r \in d : r.kind = "shelf" /\ r.user = user /\ r.book = b}
      shelves_from_books ==
        {Container(o) : o \in {r.owner : r \in {x \in shelf_books : x.owner = user}}}
      book_lists ==
        {Container(o) :
           o \in {r.owner : r \in {x \in d : x.kind = "list" /\ x.book = b /\ x.owner = user}}}
  IN [id |-> b,
      edition |-> b,
      authors |-> Authors[b],
      readthroughs |-> {r \in d : r.kind = "readthrough" /\ r.user = user /\ r.book = b},
      shelves |-> shelves_from_books,
      shelf_books |->
        UNION {{r \in d : r.kind = "shelf" /\ r.user = user /\ r.owner = s.name} :
                 s \in shelves_from_books},
      lists |-> book_lists,
      list_items |->
        UNION {{r \in d : r.kind = "list" /\ r.owner = l.name} : l \in book_lists},
      reviews |-> {r \in d : r.kind = "review" /\ r.user = user /\ r.book = b},
      comments |-> {r \in d : r.kind = "comment" /\ r.user = user /\ r.book = b},
      quotes |-> {r \in d : r.kind = "quotation" /\ r.user = user /\ r.book = b}]

\* The goals of a user, as the goals query yields them.
GoalsOf(user) == SelectSeq(AnnualGoals, LAMBDA g : g.user = user)

\* json_export, lines 177-203: the bundle.
Bundle(user, has_avatar, goals, bks) ==
  [user |-> [username |-> user, avatar |-> has_avatar],
   goals |-> goals,
   books |-> bks,
   saved_lists |-> {},
   follows |-> {f[2] : f \in {x \in UserFollows : x[1] = user}},
   blocked_users |-> {f[2] : f \in {x \in UserBlocks : x[1] = user}}]

CoverEntriesNoCheck(editions) ==
  [i \in 1..Len(editions) |-> [type |-> "cover", of |-> editions[i]]]

\* tar_export, lines 66-69: one cover image for every edition that has one.
CoverEntries(editions) ==
  Flatten([i \in 1..Len(editions) |->
             IF editions[i] \in WithCover
             THEN << [type |-> "cover", of |-> editions[i]] >> ELSE << >>])

\* tar_export, lines 60-69: the entries written to the archive, in order.
TarEntries(json, has_avatar, editions) ==
  << [type |-> "json", of |-> json] >>
    \o (IF has_avatar THEN << [type |-> "avatar", of |-> 0] >> ELSE << >>)
    \o CoverEntries(editions)

\* ---------------------------------------------------------------- Init
RECURSIVE SubsetsUpTo(_, _)
SubsetsUpTo(S, k) ==
  IF k = 0 THEN {{}}
  ELSE LET P == SubsetsUpTo(S, k - 1) IN P \cup {p \cup {x} : p \in P, x \in S}

Faults ==
  [goals : -1..(Len(GoalsOf(JobUser)) - 1), readthroughs : BOOLEAN, books : BOOLEAN,
   tar : BOOLEAN]

\* The state before the first start_job call, whatever the store holds.
InitJob ==
  /\ visible \in SUBSET Editions
  /\ avatar \in BOOLEAN
  /\ queue = << >>
  /\ starts = 0
  /\ job = [status |-> "pending", complete |-> FALSE, export_data |-> NoFile]
  /\ pc = "idle"
  /\ file = NoFile
  /\ goals_list = << >>
  /\ readthroughs = {}
  /\ books = << >>
  /\ final_books = << >>
  /\ json_data = NoData
  /\ raised = "none"
  /\ trace = << >>

\* A store of up to MaxRecords rows that answers every query.
Init ==
  /\ db \in SubsetsUpTo(Rows, MaxRecords)
  /\ faults = NoFaults
  /\ InitJob

\* A store of up to MaxFaultRecords rows, with any of the exceptions.
InitFaults ==
  /\ db \in SubsetsUpTo(Rows, MaxFaultRecords)
  /\ faults \in Faults
  /\ InitJob

data == << db, visible, avatar, faults >>
locals == << goals_list, readthroughs, books, final_books >>

\* ------------------------------------------------------------- actions
StartJobTwice ==
  /\ starts < MaxStarts
  /\ starts' = starts + 1
  /\ queue' = queue \o << [job_id |-> 1, no_children |-> TRUE],
                          [job_id |-> 1, no_children |-> TRUE] >>
  /\ UNCHANGED << data, job, pc, file, locals, json_data, raised, trace >>

\* BookwyrmExportJob.start_job
StartJob ==
  /\ starts < MaxStarts
  /\ starts' = starts + 1
  /\ queue' = Append(queue, [job_id |-> 1, no_children |-> TRUE])
  /\ UNCHANGED << data, job, pc, file, locals, json_data, raised, trace >>

\* The job is stopped from the UI while no task is running.
StopJob ==
  /\ pc = "idle"
  /\ ~job.complete
  /\ job' = [job EXCEPT !.status = "stopped", !.complete = TRUE]
  /\ UNCHANGED << data, queue, starts, pc, file, locals, json_data, raised, trace >>

\* Another process deletes a relation row.
RemoveRelation ==
  /\ \E r \in db : db' = db \ {r}
  /\ UNCHANGED << visible, avatar, faults, queue, starts, job, pc, file, locals,
                  json_data, raised, trace >>

TaskStartNoCheck ==
  /\ pc = "idle"
  /\ queue # << >>
  /\ queue' = Tail(queue)
  /\ raised' = "none"
  /\ trace' = << >>
  /\ pc' = "json_goals"
  /\ file' = [state |-> "new", entries |-> << >>]
  /\ UNCHANGED << data, starts, job, locals, json_data >>

\* start_export_task, lines 36-45: the worker takes the task from the queue.
TaskStart ==
  /\ pc = "idle"
  /\ queue # << >>
  /\ queue' = Tail(queue)
  /\ raised' = "none"
  /\ IF job.complete
     THEN /\ trace' = << "skip" >>
          /\ pc' = "idle"
          /\ file' = file
     ELSE /\ trace' = << >>
          /\ pc' = "json_goals"
          /\ file' = [state |-> "new", entries |-> << >>]
  /\ UNCHANGED << data, starts, job, locals, json_data >>

\* An exception leaves json_export: its locals are gone.
JsonRaise(place) ==
  /\ goals_list' = << >>
  /\ readthroughs' = {}
  /\ books' = << >>
  /\ final_books' = << >>
  /\ raised' = place
  /\ trace' = Append(trace, "json:raise")
  /\ pc' = "except"

JsonGoalsNoCatch ==
  /\ pc = "json_goals"
  /\ IF faults.goals = -1
     THEN /\ goals_list' = GoalsOf(JobUser)
          /\ pc' = "json_readthroughs"
          /\ UNCHANGED << readthroughs, books, final_books, raised, trace >>
     ELSE JsonRaise("goals")
  /\ UNCHANGED << data, queue, starts, job, file, json_data >>

\* json_export, lines 77-107: the goals; the iteration may raise after
\* faults.goals goals.
JsonGoals ==
  /\ pc = "json_goals"
  /\ goals_list' = IF faults.goals = -1 THEN GoalsOf(JobUser)
                   ELSE SubSeq(GoalsOf(JobUser), 1, faults.goals)
  /\ pc' = "json_readthroughs"
  /\ UNCHANGED << data, queue, starts, job, file, readthroughs, books, final_books,
                  json_data, raised, trace >>

\* json_export, lines 109-113: the read-throughs; the query may raise.
JsonReadthroughs ==
  /\ pc = "json_readthroughs"
  /\ readthroughs' = IF faults.readthroughs THEN {}
                     ELSE {r \in db : r.kind = "readthrough" /\ r.user = JobUser}
  /\ pc' = "json_list_books"
  /\ UNCHANGED << data, queue, starts, job, file, goals_list, books, final_books,
                  json_data, raised, trace >>

\* json_export, lines 116-119: the books query is evaluated as the loop starts;
\* the store may fail to answer it.
JsonListBooks ==
  /\ pc = "json_list_books"
  /\ IF faults.books
     THEN JsonRaise("books")
     ELSE /\ books' = GetBooksForUser(db, visible, JobUser).books
          /\ pc' = "json_books"
          /\ UNCHANGED << goals_list, readthroughs, final_books, raised, trace >>
  /\ UNCHANGED << data, queue, starts, job, file, json_data >>

\* editions.filter(id=book["id"]), evaluated on store d.
EditionLookup(d, vis, user, b) ==
  SelectSeq(GetBooksForUser(d, vis, user).editions, LAMBDA e : e = b)

\* json_export, lines 119-175: one iteration of the loop over the books.
\* edition.values()[0] raises IndexError when the lookup finds no row.
JsonBook ==
  /\ pc = "json_books"
  /\ books # << >>
  /\ LET book == Head(books)
         edition == EditionLookup(db, visible, JobUser, book)
     IN IF edition = << >>
        THEN JsonRaise("lookup")
        ELSE /\ final_books' = Append(final_books, BookEntry(db, JobUser, book))
             /\ books' = Tail(books)
             /\ UNCHANGED << goals_list, readthroughs, raised, trace, pc >>
  /\ UNCHANGED << data, queue, starts, job, file, json_data >>

\* json_export, lines 177-203: the loop is over; the bundle is encoded and returned.
JsonFinish ==
  /\ pc = "json_books"
  /\ books = << >>
  /\ json_data' = Bundle(JobUser, avatar, goals_list, final_books)
  /\ goals_list' = << >>
  /\ readthroughs' = {}
  /\ final_books' = << >>
  /\ trace' = Append(trace, "json:return")
  /\ pc' = "tar"
  /\ UNCHANGED << data, queue, starts, job, file, books, raised >>

\* tar_export, lines 56-71; writing to the archive may raise, which leaves the
\* file open.
TarExport ==
  /\ pc = "tar"
  /\ IF faults.tar
     THEN /\ raised' = "tar"
          /\ file' = [state |-> "open", entries |-> << [type |-> "json", of |-> json_data] >>]
          /\ trace' = Append(trace, "tar:raise")
          /\ pc' = "except"
     ELSE /\ file' = [state |-> "closed",
                      entries |-> TarEntries(json_data, avatar,
                                    GetBooksForUser(db, visible, JobUser).editions)]
          /\ trace' = Append(trace, "tar:return")
          /\ pc' = "save"
          /\ raised' = raised
  /\ UNCHANGED << data, queue, starts, job, locals, json_data >>

SaveWrongFields ==
  /\ pc = "save"
  /\ job' = job
  /\ trace' = Append(trace, "save")
  /\ pc' = "complete"
  /\ UNCHANGED << data, queue, starts, file, locals, json_data, raised >>

\* start_export_task, line 48: job.save(update_fields=["export_data"]).
Save ==
  /\ pc = "save"
  /\ job' = [job EXCEPT !.export_data = file]
  /\ trace' = Append(trace, "save")
  /\ pc' = "complete"
  /\ UNCHANGED << data, queue, starts, file, locals, json_data, raised >>

\* start_export_task, lines 49-51: the failure is logged, the job marked failed.
Except ==
  /\ pc = "except"
  /\ job' = SetStatus(job, "failed")
  /\ trace' = trace \o << "log", "status:failed" >>
  /\ pc' = "complete"
  /\ UNCHANGED << data, queue, starts, file, locals, json_data, raised >>

\* start_export_task, line 53; the task returns and its job object is gone.
SetComplete ==
  /\ pc = "complete"
  /\ job' = SetStatus(job, "complete")
  /\ trace' = Append(trace, "status:complete")
  /\ pc' = "idle"
  /\ file' = NoFile
  /\ json_data' = NoData
  /\ UNCHANGED << data, queue, starts, locals, raised >>

Next ==
  \/ StartJob
  \/ StopJob
  \/ RemoveRelation
  \/ TaskStart
  \/ JsonGoals
  \/ JsonReadthroughs
  \/ JsonListBooks
  \/ JsonBook
  \/ JsonFinish
  \/ TarExport
  \/ Save
  \/ Except
  \/ SetComplete

\* The export over any store of up to MaxRecords rows.
Spec == Init /\ [][Next]_vars

\* The export with the store and the archive library raising exceptions.
SpecFaults == InitFaults /\ [][Next]_vars

\* --------------------------------------------------------------- claims
\* The run of start_export_task that the trace describes has returned.
Returned == pc = "idle" /\ Contains(trace, "status:complete")

\* C1: when json_export or tar_export raised in a run on a job that was not
\* complete at task start, the failure is logged and, when the task has
\* returned, the job's status is "failed".
C1_FailureMarksFailed ==
  (Returned /\ raised # "none") => (Contains(trace, "log") /\ job.status = "failed")

\* C2: a task that starts on a complete job returns at once: it neither
\* assigns nor saves export_data, does not enter json_export or tar_export,
\* and leaves the job row, its status included, as it was.
C2_StoppedJobNotStarted ==
  [][(pc = "idle" /\ queue # << >> /\ queue' = Tail(queue) /\ job.complete)
       => /\ pc' = "idle"
          /\ job' = job
          /\ file' = file
          /\ json_data' = json_data
          /\ ~Contains(trace', "json:return") /\ ~Contains(trace', "json:raise")
          /\ ~Contains(trace', "tar:return") /\ ~Contains(trace', "tar:raise")
          /\ ~Contains(trace', "save")]_vars

\* A task ran on a job that was stopped from the UI before it started.
C2_Witness ==
  /\ trace = << "skip" >>
  /\ job.status = "stopped"
  /\ job.export_data = NoFile
  /\ pc = "idle"

\* The goals json_export holds when iterating them raised after faults.goals goals.
GoalsCollected ==
  IF faults.goals = -1 THEN GoalsOf(JobUser) ELSE SubSeq(GoalsOf(JobUser), 1, faults.goals)

\* C3: an exception while collecting the goals or the read-throughs never
\* fails the export: goals_list keeps the goals collected before the exception
\* and the bundle returned holds them, the read-throughs are the empty list
\* after their query raised, and an exception reaches start_export_task (and
\* the job is marked failed) only when the books query, the edition lookup or
\* tar_export raised.
C3_OptionalFaultsSuppressed ==
  /\ pc \in {"json_readthroughs", "json_list_books", "json_books"} => goals_list = GoalsCollected
  /\ (pc \in {"json_list_books", "json_books"} /\ faults.readthroughs) => readthroughs = {}
  /\ pc \in {"tar", "save"} => json_data.goals = GoalsCollected
  /\ raised # "none" => (faults.books \/ faults.tar \/ raised = "lookup")
  /\ Contains(trace, "status:failed") => raised # "none"
  /\ (Returned /\ ~faults.books /\ ~faults.tar /\ raised # "lookup")
       => (~Contains(trace, "log") /\ ~Contains(trace, "status:failed")
             /\ Contains(trace, "save"))

\* Iterating the goals raised after one goal and the read-throughs query raised;
\* the export went through and its bundle holds the one goal.
C3_Witness ==
  /\ Returned
  /\ faults.goals = 1
  /\ faults.readthroughs
  /\ ~Contains(trace, "status:failed")
  /\ job.export_data.state = "closed"
  /\ Len(job.export_data.entries[1].of.goals) = 1

\* C4: when tar_export returns normally, the archive holds the JSON payload
\* first, the avatar once if the user has one and not otherwise, one cover for
\* every edition of get_books_for_user that has a cover and none for the others,
\* nothing else, and the file is closed.
C4_ArchiveContents ==
  [][(pc = "tar" /\ pc' = "save")
       => LET entries == file'.entries
              editions == GetBooksForUser(db, visible, JobUser).editions
              covered == {e \in Editions : Contains(editions, e) /\ e \in WithCover}
          IN /\ file'.state = "closed"
             /\ entries[1] = [type |-> "json", of |-> json_data]
             /\ Count(entries, [type |-> "avatar", of |-> 0]) = (IF avatar THEN 1 ELSE 0)
             /\ \A e \in Editions :
                  Count(entries, [type |-> "cover", of |-> e]) = (IF e \in covered THEN 1 ELSE 0)
             /\ Len(entries) = 1 + (IF avatar THEN 1 ELSE 0) + Cardinality(covered)]_vars

\* tar_export returned an archive of the payload, the avatar and one cover, for
\* a user with two editions of which one has no cover.
C4_Witness ==
  /\ pc = "save"
  /\ Len(file.entries) = 3
  /\ avatar
  /\ Len(GetBooksForUser(db, visible, JobUser).editions) = 2
  /\ Contains(file.entries, [type |-> "cover", of |-> 1])

\* The rows json_export placed under a book of the bundle.
RecordsUnder(book) ==
  book.readthroughs \cup book.shelves \cup book.shelf_books \cup book.lists
    \cup book.list_items \cup book.reviews \cup book.comments \cup book.quotes

\* C5: every read-through, shelf, shelf entry, list, list item, review, comment
\* and quotation under a book of the bundle is a row of the exported user.
C5_SingleUsersData ==
  \A i \in 1..Len(final_books) : \A r \in RecordsUnder(final_books[i]) : r.user = JobUser

RelatedTo(user, e) ==
  \E r \in db :
    /\ r.book = e
    /\ \/ r.kind \in {"shelf", "list"} /\ r.owner = user
       \/ r.kind \in {"readthrough", "review", "comment", "quotation"} /\ r.user = user

\* C7: get_books_for_user returns all and only the visible editions related to
\* the user, each exactly once, and exactly the books with the id of one of them.
C7_BooksForUser ==
  LET got == GetBooksForUser(db, visible, JobUser)
      related == {e \in visible : RelatedTo(JobUser, e)}
  IN /\ Range(got.editions) = related
     /\ \A e \in Editions : Count(got.editions, e) <= 1
     /\ Range(got.books) = {b \in BookIds : b \in related}
     /\ \A b \in BookIds : Count(got.books, b) <= 1

\* json_export iterates the books of a user to whom edition 1 is related twice
\* over (two rows of the joined query) and is listed once.
C7_Witness ==
  /\ pc = "json_books"
  /\ books = << 1 >>
  /\ Cardinality(JoinRows(db, JobUser, 1)) = 2
  /\ GetBooksForUser(db, visible, JobUser).editions = << 1 >>

\* C8: export_data is saved only after json_export and tar_export have both
\* returned, and before the status is set to complete; a run in which either
\* raised saves nothing and leaves the stored export_data empty; a run that
\* completes without an exception has stored the closed archive.
C8_SaveAfterExports ==
  /\ Contains(trace, "save")
       => /\ 0 < Pos(trace, "json:return")
          /\ Pos(trace, "json:return") < Pos(trace, "tar:return")
          /\ Pos(trace, "tar:return") < Pos(trace, "save")
          /\ Contains(trace, "status:complete")
               => Pos(trace, "save") < Pos(trace, "status:complete")
          /\ raised = "none"
          /\ job.export_data.state = "closed"
  /\ (Contains(trace, "json:raise") \/ Contains(trace, "tar:raise"))
       => (~Contains(trace, "save") /\ job.export_data = NoFile)
  /\ (Contains(trace, "status:complete") /\ ~Contains(trace, "log"))
       => (Contains(trace, "save") /\ job.export_data # NoFile)

\* A run completed without an exception and its archive is stored.
C8_Witness ==
  /\ Returned
  /\ raised = "none"
  /\ trace = << "json:return", "tar:return", "save", "status:complete" >>
  /\ job.status = "complete"
  /\ job.export_data.state = "closed"

\* C9: for every book json_export iterates, the per-book edition lookup finds
\* at least one edition, also when another process removed the user's relation
\* to the book after the books were listed.
C9_LookupFindsEdition ==
  (pc = "json_books" /\ books # << >>)
    => EditionLookup(db, visible, JobUser, Head(books)) # << >>
====
